---- MODULE Spec2Model ----
(***************************************************************************)
(* Stream-lifecycle manager of the dynamic RTSP relay                      *)
(* (src/src/http_server/endpoints.rs, appstate.rs).                        *)
(*                                                                         *)
(* Every HTTP request is a task.  A task's step runs from one suspension   *)
(* point (a tokio Mutex lock().await) to the next; the guards that live to *)
(* the end of a function are the lock variables.  The media engine         *)
(* (gst-rtsp-server) is the environment: it creates media for a mounted    *)
(* factory, fires the media-configure callback, drops medias, and its      *)
(* unprepare either succeeds or fails.  The clock is read, not ticked:     *)
(* Utc::now() returns a value no smaller than the one read before.         *)
(***************************************************************************)
EXTENDS Integers, Sequences, FiniteSets, TLC

\* ---------------------------------------------------------------- bounds
NumTasks == 2
MaxClock == 4
MaxUlid == 1
MaxMedia == 2
\* requests received in all: by the concurrent tasks, and by the single task
MaxRequests == 2
MaxSeqRequests == 3
MaxRaceRequests == 3

\* ----------------------------------------------------- program constants
TicksPerMinute == 2
stream_expiration_time_in_minutes == 1
stream_max_life_time_in_minutes == 2
rtsp_root_url == "rtsp://h/"

Tasks == 1..NumTasks
None == 0
\* HashMap::new(), and the mount points of a fresh server
EmptyMap == [p \in {} |-> 0]

\* ids a caller may PUT, and the ids Ulid::new() hands out, in order
PutIds == {"a"}
UlidIds == <<"u1", "u2", "u3">>

\* request bodies (name, source_url, down_scale)
Requests ==
  { [name |-> "n1", source_url |-> "x", down_scale |-> FALSE],
    [name |-> "n2", source_url |-> "y", down_scale |-> TRUE] }
NoReq == [name |-> "", source_url |-> "", down_scale |-> FALSE]

\* ------------------------------------------------------------ data types
Never == [kind |-> "Never", t |-> 0]
At(t) == [kind |-> "At", t |-> t]

\* format!("/{}", id)
Path(id) == "/" \o id

\* the launch string of the factory
Launch(source_url, down_scale) ==
  IF down_scale
    THEN "rtspsrc location=" \o source_url \o " latency=0 ! videoscale ! pay0"
    ELSE "rtspsrc location=" \o source_url \o " latency=50 protocols=tcp ! pay0"

\* chrono::Duration::minutes(m), in clock ticks
Minutes(m) == m * TicksPerMinute
\* Duration::num_minutes(): whole minutes, truncated toward zero
NumMinutes(d) == IF d >= 0 THEN d \div TicksPerMinute ELSE -((-d) \div TicksPerMinute)

\* DateTime::to_rfc3339 of a clock value, a tick being half a minute
Rfc3339(t) ==
  "1970-01-01T00:" \o <<"00", "01", "02", "03", "04", "05", "06", "07", "08", "09">>[(t \div 2) + 1]
    \o (IF t % 2 = 0 THEN ":00" ELSE ":30") \o "+00:00"

\* Option<String>
NoString == [some |-> FALSE, v |-> ""]
Some(v) == [some |-> TRUE, v |-> v]

\* a media the engine has dropped: its WeakRef no longer upgrades
DeadMedia == [alive |-> FALSE, n_streams |-> 0, unprepared |-> 0]

VARIABLES
  streams,      \* AppState.streams: Vec<StreamInfoInternal>
  mounts,       \* AppState.mounts: path -> factory, the mounted paths are its DOMAIN
  media_map,    \* AppState.media_map: path -> Vec<WeakRef<RTSPMedia>>
  medias,       \* the engine's media objects, a WeakRef is an index into it
  now,          \* the last value Utc::now() returned, in ticks
  nextUlid,     \* how many ids Ulid::new() has handed out
  started,      \* how many requests have been received
  streamsLock,  \* holder of the streams mutex
  mediaLock,    \* holder of the media_map mutex
  pc,           \* each task's position
  op,           \* the request a task serves
  arg,          \* its id
  req,          \* its body
  expirable,    \* AddStreamToStateInput.expirable
  expiration_date, \* add_stream_to_state's local
  added_at,     \* add_stream_to_state's local (stream_info_internal.added_at)
  current_time, \* remove_stale_streams' local
  stale,        \* remove_stale_streams' stale_streams_ids
  k,            \* position of the sweep's for loop in stale
  result,       \* what the request returned
  was_registered, \* remove_stream_by_id found a record of its id to drop
  errs,         \* ids whose remove_stream_if_has_no_clients returned Err in this sweep
  busy,         \* ids this sweep preserved because clients were found
  missing,      \* ids this sweep found no record of ("stream not found")
  concurrent,   \* another request was in progress at some point of this one
  listed,       \* list_streams' result: Vec<StreamInfoListItem>
  fresh         \* ids an add_stream returned, with no remove or sweep since

shared == <<streams, mounts, media_map, medias>>
counters == <<nextUlid, started>>
locks == <<streamsLock, mediaLock>>
input == <<op, arg, req, expirable>>
addLocals == <<expiration_date, added_at>>
sweepLocals == <<current_time, stale, k, errs, busy, missing>>

history == <<was_registered, concurrent, listed, fresh>>

vars == <<shared, now, counters, locks, pc, input, addLocals, sweepLocals, result,
          history>>

\* ------------------------------------------------------- pure operations
\* a retain that keeps every record
RetainAll(id, s) == TRUE

\* a retain that drops every record
RetainNone(ss, id) == <<>>

\* streams_infos.retain(|e| e.id != id)
RetainNot(id, s) == s.id # id
Retain(ss, id) == SelectSeq(ss, LAMBDA s : RetainNot(id, s))

\* a remove_factory that unmounts every path
RemoveFactoryAll(m, path) == EmptyMap

\* a remove_factory that unmounts nothing
RemoveFactoryNone(m, path) == m

\* RTSPMountPoints::remove_factory: a no-op on an absent path
RemoveFactory(m, path) == [p \in DOMAIN m \ {path} |-> m[p]]

\* an add_factory that mounts nothing
AddFactoryNone(m, path, factory) == m

\* RTSPMountPoints::add_factory: replaces what is mounted at the path
AddFactory(m, path, factory) ==
  [p \in DOMAIN m \cup {path} |-> IF p = path THEN factory ELSE m[p]]

\* media_map.entry(path).or_insert_with(Vec::new).push(weak)
PushMedia(mm, path, w) ==
  [p \in DOMAIN mm \cup {path} |->
     IF p = path THEN (IF path \in DOMAIN mm THEN Append(mm[path], w) ELSE <<w>>)
     ELSE mm[p]]

\* lines 103-109: the expiration date of a new stream, c the clock's value
ExpirationFor(e, c) ==
  IF e THEN At(c + Minutes(stream_expiration_time_in_minutes)) ELSE Never

\* lines 97-101, 120-126: the record add_stream_to_state pushes
StreamInfoInternal(id, name, added, expiration) ==
  [id |-> id, name |-> name, url |-> rtsp_root_url \o id, added_at |-> added,
   expiration_date |-> expiration]

\* the filter with < for <=
IsStaleStrict(s, ct) ==
  IF s.expiration_date.kind = "Never" THEN TRUE ELSE s.expiration_date.t < ct

\* the filter closure of remove_stale_streams
IsStale(s, ct) ==
  IF s.expiration_date.kind = "Never" THEN TRUE ELSE s.expiration_date.t <= ct

RECURSIVE IdsOf(_)
IdsOf(ss) == IF ss = <<>> THEN <<>> ELSE <<Head(ss).id>> \o IdsOf(Tail(ss))

StaleIds(ss, ct) == IdsOf(SelectSeq(ss, LAMBDA s : IsStale(s, ct)))

\* the counting loop of remove_stream_if_has_no_clients, with its break
RECURSIVE FoundClients(_, _, _)
FoundClients(ws, ms, count) ==
  IF ws = <<>> THEN count
  ELSE LET c == IF ms[Head(ws)].alive THEN count + ms[Head(ws)].n_streams ELSE count
       IN IF c > 0 THEN c ELSE FoundClients(Tail(ws), ms, c)

\* streams_infos.iter().find(|s| s.id == id): 0 when there is none
RECURSIVE FindFrom(_, _, _)
FindFrom(ss, id, i) ==
  IF i > Len(ss) THEN 0 ELSE IF ss[i].id = id THEN i ELSE FindFrom(ss, id, i + 1)
Find(ss, id) == FindFrom(ss, id, 1)

\* the test with the age comparison turned around
ShouldPreserveOld(found_clients, minutes) ==
  found_clients > 0 /\ minutes > stream_max_life_time_in_minutes

\* the test of line 199
ShouldPreserve(found_clients, minutes) ==
  found_clients > 0 /\ minutes < stream_max_life_time_in_minutes

\* a decision that takes a missing record for one to tear down
VerdictNoCheck(ss, i, found_clients, c) ==
  IF i = 0 THEN "teardown"
  ELSE IF ShouldPreserve(found_clients, NumMinutes(c - ss[i].added_at)) THEN "preserve"
  ELSE "teardown"

\* lines 191-203: what remove_stream_if_has_no_clients decides for the record
\* at position i of ss (0: there is none), c the clock value it read
Verdict(ss, i, found_clients, c) ==
  IF i = 0 THEN "none"
  ELSE IF ShouldPreserve(found_clients, NumMinutes(c - ss[i].added_at)) THEN "preserve"
  ELSE "teardown"

\* the handles of a Vec that still upgrade
Live(ws, ms) == {ws[i] : i \in {j \in 1..Len(ws) : ms[ws[j]].alive}}

\* an unprepare loop that takes a handle that does not upgrade for a failure
RECURSIVE UnprepareAllStrict(_, _, _)
UnprepareAllStrict(ws, ms, F) ==
  IF ws = <<>> THEN [medias |-> ms, err |-> FALSE]
  ELSE LET w == Head(ws) IN
       IF ms[w].alive
         THEN LET ms2 == [ms EXCEPT ![w].unprepared = 1] IN
              IF w \in F THEN [medias |-> ms2, err |-> TRUE]
              ELSE UnprepareAllStrict(Tail(ws), ms2, F)
         ELSE [medias |-> ms, err |-> TRUE]

\* the unprepare loop over a Vec of weak handles, F the medias whose unprepare
\* fails: `?` leaves the loop at the first failure
RECURSIVE UnprepareAll(_, _, _)
UnprepareAll(ws, ms, F) ==
  IF ws = <<>> THEN [medias |-> ms, err |-> FALSE]
  ELSE LET w == Head(ws) IN
       IF ms[w].alive
         THEN LET ms2 == [ms EXCEPT ![w].unprepared = 1] IN
              IF w \in F THEN [medias |-> ms2, err |-> TRUE]
              ELSE UnprepareAll(Tail(ws), ms2, F)
         ELSE UnprepareAll(Tail(ws), ms, F)

\* the item list_streams builds of a record
StreamInfoListItem(s) ==
  [id |-> s.id, name |-> s.name, url |-> s.url, added_at |-> Rfc3339(s.added_at),
   expiration_date |-> IF s.expiration_date.kind = "Never" THEN NoString
                       ELSE Some(Rfc3339(s.expiration_date.t))]

\* a loop that stops before the last record
RECURSIVE ListItemsButLast(_)
ListItemsButLast(ss) ==
  IF Len(ss) <= 1 THEN <<>>
  ELSE <<StreamInfoListItem(Head(ss))>> \o ListItemsButLast(Tail(ss))

\* the for loop of list_streams
RECURSIVE ListItems(_)
ListItems(ss) ==
  IF ss = <<>> THEN <<>> ELSE <<StreamInfoListItem(Head(ss))>> \o ListItems(Tail(ss))

\* a sweep that reports the failures of its removals
SweepResultStrict(es) == IF es = {} THEN "ok" ELSE "err"

\* line 282: the sweep's result, es the ids whose removal failed
SweepResult(es) == "ok"

Active(t) == pc[t] \notin {"idle", "done"}
OthersActive(t) == \E u \in Tasks \ {t} : Active(u)
\* a remove_stream or a remove_stale_streams is in progress in task t
Removing(t) == Active(t) /\ op[t] \in {"remove_stream", "remove_stale_streams"}

\* ------------------------------------------------------------------ Init
Init ==
  /\ streams = <<>>
  /\ mounts = EmptyMap
  /\ media_map = EmptyMap
  /\ medias = <<>>
  /\ now = 0
  /\ nextUlid = 0
  /\ started = 0
  /\ streamsLock = None
  /\ mediaLock = None
  /\ pc = [t \in Tasks |-> "idle"]
  /\ op = [t \in Tasks |-> "none"]
  /\ arg = [t \in Tasks |-> ""]
  /\ req = [t \in Tasks |-> NoReq]
  /\ expirable = [t \in Tasks |-> FALSE]
  /\ expiration_date = [t \in Tasks |-> Never]
  /\ added_at = [t \in Tasks |-> 0]
  /\ current_time = [t \in Tasks |-> 0]
  /\ stale = [t \in Tasks |-> <<>>]
  /\ k = [t \in Tasks |-> 0]
  /\ result = [t \in Tasks |-> "none"]
  /\ errs = [t \in Tasks |-> {}]
  /\ busy = [t \in Tasks |-> {}]
  /\ missing = [t \in Tasks |-> {}]
  /\ concurrent = [t \in Tasks |-> FALSE]
  /\ was_registered = [t \in Tasks |-> FALSE]
  /\ listed = [t \in Tasks |-> <<>>]
  /\ fresh = {}

\* --------------------------------------------------------------- helpers
\* the ids a client can name: those it chooses itself, and the generated
\* ids that an add_stream has returned
KnownIds ==
  PutIds \cup {UlidIds[i] : i \in {j \in 1..nextUlid :
                                   \A t \in Tasks : Active(t) => arg[t] # UlidIds[j]}}

\* a request starts: it runs concurrently with every request in progress
Begin(t, o, id, r, e) ==
  /\ pc[t] = "idle"
  /\ started' = started + 1
  /\ was_registered' = was_registered
  /\ listed' = listed
  /\ fresh' = IF o \in {"remove_stream", "remove_stale_streams"} THEN {} ELSE fresh
  /\ op' = [op EXCEPT ![t] = o]
  /\ arg' = [arg EXCEPT ![t] = id]
  /\ req' = [req EXCEPT ![t] = r]
  /\ expirable' = [expirable EXCEPT ![t] = e]
  /\ result' = [result EXCEPT ![t] = "none"]
  /\ concurrent' = [u \in Tasks |->
                      IF u = t THEN OthersActive(t)
                      ELSE IF Active(u) THEN TRUE ELSE concurrent[u]]

\* the function returns to the handler, which returns r
Return(t, r) ==
  /\ pc' = [pc EXCEPT ![t] = "done"]
  /\ result' = [result EXCEPT ![t] = r]

\* the next round of the for loop of remove_stale_streams, or its Ok
SweepNext(t) ==
  IF k[t] < Len(stale[t])
    THEN /\ k' = [k EXCEPT ![t] = k[t] + 1]
         /\ pc' = [pc EXCEPT ![t] = "rif_media"]
         /\ result' = result
    ELSE /\ k' = k
         /\ Return(t, SweepResult(errs'[t]))

\* -------------------------------------------------------------- requests
\* POST /streams: add_stream, up to the mounts lock of add_stream_to_state
StartAddStream(t, limit) ==
  /\ started < limit
  /\ nextUlid < MaxUlid
  /\ \E r \in Requests, e \in BOOLEAN :
       Begin(t, "add_stream", UlidIds[nextUlid + 1], r, e)
  /\ nextUlid' = nextUlid + 1
  /\ pc' = [pc EXCEPT ![t] = "add_mount"]
  /\ UNCHANGED <<shared, now, locks, addLocals, sweepLocals>>

\* PUT /streams/{id}: put_permanent_stream, up to the streams lock of
\* remove_stream_by_id
StartPutPermanentStream(t, limit) ==
  /\ started < limit
  /\ \E id \in PutIds, r \in Requests : Begin(t, "put_permanent_stream", id, r, FALSE)
  /\ pc' = [pc EXCEPT ![t] = "rm_lock"]
  /\ UNCHANGED <<shared, now, nextUlid, locks, addLocals, sweepLocals>>

\* DELETE /streams/{id}: remove_stream, up to the streams lock
StartRemoveStream(t, limit) ==
  /\ started < limit
  /\ \E id \in KnownIds : Begin(t, "remove_stream", id, NoReq, FALSE)
  /\ pc' = [pc EXCEPT ![t] = "rm_lock"]
  /\ UNCHANGED <<shared, now, nextUlid, locks, addLocals, sweepLocals>>

\* DELETE /streams/stale: remove_stale_streams reads the clock (line 256),
\* then waits for the streams lock
StartRemoveStaleStreams(t, limit) ==
  /\ started < limit
  /\ Begin(t, "remove_stale_streams", "", NoReq, FALSE)
  /\ \E c \in now..MaxClock :
       /\ now' = c
       /\ current_time' = [current_time EXCEPT ![t] = c]
  /\ pc' = [pc EXCEPT ![t] = "sw_snapshot"]
  /\ UNCHANGED <<shared, nextUlid, locks, addLocals, stale, k, errs, busy, missing>>

\* GET /streams: list_streams, up to its streams lock
StartListStreams(t, limit) ==
  /\ started < limit
  /\ Begin(t, "list_streams", "", NoReq, FALSE)
  /\ pc' = [pc EXCEPT ![t] = "list_lock"]
  /\ UNCHANGED <<shared, now, nextUlid, locks, addLocals, sweepLocals>>

\* ---------------------------------------------------------- list_streams
\* lines 297-311: lock, copy the records, unlock; Ok(Json(result))
ListStreams(t) ==
  /\ pc[t] = "list_lock"
  /\ streamsLock = None
  /\ listed' = [listed EXCEPT ![t] = ListItems(streams)]
  /\ Return(t, "ok")
  /\ UNCHANGED <<shared, now, counters, locks, input, addLocals, sweepLocals,
                 was_registered, concurrent, fresh>>

\* -------------------------------------------------- remove_stream_by_id
\* lines 224-225: take the streams lock (kept to the end), retain
RemoveLock(t) ==
  /\ pc[t] = "rm_lock"
  /\ streamsLock = None
  /\ streamsLock' = t
  /\ streams' = Retain(streams, arg[t])
  /\ was_registered' = [was_registered EXCEPT ![t] = Find(streams, arg[t]) # 0]
  /\ pc' = [pc EXCEPT ![t] = "rm_unmount"]
  /\ UNCHANGED <<mounts, media_map, medias, now, counters, mediaLock, input,
                 addLocals, sweepLocals, result, concurrent, listed, fresh>>

\* line 228: the mounts lock lives for this one statement
RemoveUnmount(t) ==
  /\ pc[t] = "rm_unmount"
  /\ mounts' = RemoveFactory(mounts, Path(arg[t]))
  /\ pc' = [pc EXCEPT ![t] = "rm_media"]
  /\ UNCHANGED <<streams, media_map, medias, now, counters, locks, input, addLocals,
                 sweepLocals, result, history>>

\* lines 229-244: take the media_map lock, unprepare, return (both guards
\* drop); put_permanent_stream goes on to add_stream_to_state on Ok
RemoveUnprepare(t) ==
  /\ pc[t] = "rm_media"
  /\ mediaLock = None
  /\ LET path == Path(arg[t])
         ws == IF path \in DOMAIN media_map THEN media_map[path] ELSE <<>>
     IN \E F \in SUBSET Live(ws, medias) :
          LET r == UnprepareAll(ws, medias, F) IN
            /\ medias' = r.medias
            /\ IF r.err THEN Return(t, "err")
               ELSE IF op[t] = "put_permanent_stream"
                      THEN /\ pc' = [pc EXCEPT ![t] = "add_mount"]
                           /\ result' = result
                      ELSE Return(t, "ok")
  /\ streamsLock' = None
  /\ UNCHANGED <<streams, mounts, media_map, now, counters, mediaLock, input,
                 addLocals, sweepLocals, history>>

\* -------------------------------------------------- add_stream_to_state
\* lines 60-109: build the factory, mount it, compute the expiration date
AddMount(t) ==
  /\ pc[t] = "add_mount"
  /\ mounts' = AddFactory(mounts, Path(arg[t]),
                          [launch |-> Launch(req[t].source_url, req[t].down_scale)])
  /\ IF expirable[t]
       THEN \E c \in now..MaxClock :
              /\ now' = c
              /\ expiration_date' = [expiration_date EXCEPT ![t] = ExpirationFor(TRUE, c)]
       ELSE /\ now' = now
            /\ expiration_date' =
                 [expiration_date EXCEPT ![t] = ExpirationFor(FALSE, now)]
  /\ pc' = [pc EXCEPT ![t] = "add_clock"]
  /\ UNCHANGED <<streams, media_map, medias, counters, locks, input, added_at,
                 sweepLocals, result, history>>

\* lines 120-126: the second clock read, before the streams lock is awaited
AddClock(t) ==
  /\ pc[t] = "add_clock"
  /\ \E c \in now..MaxClock :
       /\ now' = c
       /\ added_at' = [added_at EXCEPT ![t] = c]
  /\ pc' = [pc EXCEPT ![t] = "add_push"]
  /\ UNCHANGED <<shared, counters, locks, input, expiration_date, sweepLocals,
                 result, history>>

\* line 127: lock, push, unlock; Ok(output)
AddPush(t) ==
  /\ pc[t] = "add_push"
  /\ streamsLock = None
  /\ streams' = Append(streams, StreamInfoInternal(arg[t], req[t].name, added_at[t],
                                                    expiration_date[t]))
  /\ Return(t, "ok")
  /\ fresh' = IF op[t] = "add_stream" /\ ~\E u \in Tasks \ {t} : Removing(u)
                THEN fresh \cup {arg[t]} ELSE fresh
  /\ UNCHANGED <<mounts, media_map, medias, now, counters, locks, input, addLocals,
                 sweepLocals, was_registered, concurrent, listed>>

\* ------------------------------------------------- remove_stale_streams
\* lines 257-268: the snapshot of the stale ids, under the streams lock
SweepSnapshot(t) ==
  /\ pc[t] = "sw_snapshot"
  /\ streamsLock = None
  /\ LET ids == StaleIds(streams, current_time[t]) IN
       /\ stale' = [stale EXCEPT ![t] = ids]
       /\ IF ids = <<>>
            THEN /\ Return(t, SweepResult(errs[t]))
                 /\ k' = k
            ELSE /\ pc' = [pc EXCEPT ![t] = "rif_media"]
                 /\ result' = result
                 /\ k' = [k EXCEPT ![t] = 1]
  /\ UNCHANGED <<shared, now, counters, locks, input, addLocals, current_time, errs,
                 busy, missing, history>>

\* --------------------------------------- remove_stream_if_has_no_clients
\* line 167: the media_map lock, kept to the end of the function
RifMediaLock(t) ==
  /\ pc[t] = "rif_media"
  /\ mediaLock = None
  /\ mediaLock' = t
  /\ pc' = [pc EXCEPT ![t] = "rif_streams"]
  /\ UNCHANGED <<shared, now, counters, streamsLock, input, addLocals, sweepLocals,
                 result, history>>

\* lines 168-203: the streams lock, then the decision.  The three returns
\* of Ok(()) drop both guards; the teardown waits for the mounts lock.
RifDecide(t) ==
  /\ pc[t] = "rif_streams"
  /\ streamsLock = None
  /\ UNCHANGED <<shared, counters, input, addLocals, current_time, stale, errs,
                 history>>
  /\ LET id == stale[t][k[t]]
         path == Path(id)
     IN IF path \notin DOMAIN media_map
          THEN /\ mediaLock' = None /\ streamsLock' = None
               /\ UNCHANGED <<now, busy, missing>>
               /\ SweepNext(t)
          ELSE LET found_clients == FoundClients(media_map[path], medias, 0)
                   i == Find(streams, id)
               IN \E c \in now..MaxClock :
                    LET v == Verdict(streams, i, found_clients, c) IN
                      /\ now' = c
                      /\ busy' = [busy EXCEPT ![t] =
                                    IF v = "preserve" THEN busy[t] \cup {id} ELSE busy[t]]
                      /\ missing' = [missing EXCEPT ![t] =
                                       IF v = "none" THEN missing[t] \cup {id}
                                       ELSE missing[t]]
                      /\ IF v = "teardown"
                           THEN /\ streamsLock' = t
                                /\ mediaLock' = mediaLock
                                /\ pc' = [pc EXCEPT ![t] = "rif_unmount"]
                                /\ UNCHANGED <<k, result>>
                           ELSE /\ mediaLock' = None /\ streamsLock' = None
                                /\ SweepNext(t)

\* lines 204-216: unmount, retain, unprepare; Ok or the first Err
RifTeardown(t) ==
  /\ pc[t] = "rif_unmount"
  /\ LET id == stale[t][k[t]]
         path == Path(id)
     IN \E F \in SUBSET Live(media_map[path], medias) :
          LET r == UnprepareAll(media_map[path], medias, F) IN
            /\ mounts' = RemoveFactory(mounts, path)
            /\ streams' = Retain(streams, id)
            /\ medias' = r.medias
            /\ errs' = [errs EXCEPT ![t] = IF r.err THEN errs[t] \cup {id} ELSE errs[t]]
  /\ streamsLock' = None
  /\ mediaLock' = None
  /\ SweepNext(t)
  /\ UNCHANGED <<media_map, now, counters, input, addLocals, current_time, stale,
                 busy, missing, history>>

\* the response is sent; the task is free for the next request
Finish(t) ==
  /\ pc[t] = "done"
  /\ pc' = [pc EXCEPT ![t] = "idle"]
  /\ op' = [op EXCEPT ![t] = "none"]
  /\ arg' = [arg EXCEPT ![t] = ""]
  /\ req' = [req EXCEPT ![t] = NoReq]
  /\ expirable' = [expirable EXCEPT ![t] = FALSE]
  /\ expiration_date' = [expiration_date EXCEPT ![t] = Never]
  /\ added_at' = [added_at EXCEPT ![t] = 0]
  /\ current_time' = [current_time EXCEPT ![t] = 0]
  /\ stale' = [stale EXCEPT ![t] = <<>>]
  /\ k' = [k EXCEPT ![t] = 0]
  /\ result' = [result EXCEPT ![t] = "none"]
  /\ errs' = [errs EXCEPT ![t] = {}]
  /\ busy' = [busy EXCEPT ![t] = {}]
  /\ missing' = [missing EXCEPT ![t] = {}]
  /\ concurrent' = [concurrent EXCEPT ![t] = FALSE]
  /\ was_registered' = [was_registered EXCEPT ![t] = FALSE]
  /\ listed' = [listed EXCEPT ![t] = <<>>]
  /\ UNCHANGED <<shared, now, counters, locks, fresh>>

\* ----------------------------------------------------------- environment
\* lines 84-89: the engine built a media for the factory mounted at a path
\* and runs the media-configure callback, which needs the media_map lock
MediaConfigure ==
  /\ Len(medias) < MaxMedia
  /\ mediaLock = None
  /\ \E path \in DOMAIN mounts, n \in 0..1 :
       /\ medias' = Append(medias, [alive |-> TRUE, n_streams |-> n, unprepared |-> 0])
       /\ media_map' = PushMedia(media_map, path, Len(medias) + 1)
  /\ UNCHANGED <<streams, mounts, now, counters, locks, pc, input, addLocals,
                 sweepLocals, result, history>>

\* the engine drops its last reference to a media: the WeakRef is dead
MediaDrop ==
  /\ \E m \in 1..Len(medias) :
       /\ medias[m].alive
       /\ medias' = [medias EXCEPT ![m] = DeadMedia]
  /\ UNCHANGED <<streams, mounts, media_map, now, counters, locks, pc, input,
                 addLocals, sweepLocals, result, history>>

\* a request arrives at a free task, unless limit requests have arrived
Receive(t, limit) ==
  \/ StartAddStream(t, limit)
  \/ StartPutPermanentStream(t, limit)
  \/ StartRemoveStream(t, limit)
  \/ StartRemoveStaleStreams(t, limit)
  \/ StartListStreams(t, limit)

\* a task runs to its next suspension point
Step(t) ==
  \/ RemoveLock(t)
  \/ RemoveUnmount(t)
  \/ RemoveUnprepare(t)
  \/ AddMount(t)
  \/ AddClock(t)
  \/ AddPush(t)
  \/ SweepSnapshot(t)
  \/ RifMediaLock(t)
  \/ RifDecide(t)
  \/ RifTeardown(t)
  \/ ListStreams(t)
  \/ Finish(t)

Engine == MediaConfigure \/ MediaDrop

\* requests served concurrently by the runtime's tasks
Next ==
  \/ \E t \in Tasks : Receive(t, MaxRequests)
  \/ \E t \in Tasks : Step(t)
  \/ Engine

Spec == Init /\ [][Next]_vars

\* requests served one after the other
SeqNext ==
  \/ Receive(1, MaxSeqRequests)
  \/ Step(1)
  \/ Engine

SeqSpec == Init /\ [][SeqNext]_vars

\* one client whose requests follow one another, and beside it a second
\* client that removes streams
RaceNext ==
  \/ Receive(1, MaxRaceRequests)
  \/ StartRemoveStream(2, MaxRaceRequests)
  \/ \E t \in Tasks : Step(t)
  \/ Engine

RaceSpec == Init /\ [][RaceNext]_vars

\* ================================================================ claims
Range(f) == {f[i] : i \in DOMAIN f}
RegisteredIds == {streams[i].id : i \in DOMAIN streams}
RecordsOf(id) == {i \in DOMAIN streams : streams[i].id = id}
Registered(id) == RecordsOf(id) # {}
Mounted(id) == Path(id) \in DOMAIN mounts
Quiescent == \A t \in Tasks : ~Active(t)
\* the Vec recorded for the path of an id, empty when there is no entry
Handles(id) == IF Path(id) \in DOMAIN media_map THEN media_map[Path(id)] ELSE <<>>
\* the step of task t from position a to another one
Leaves(t, a) == pc[t] = a /\ pc'[t] # a

\* C1 (I1, mount-correspondence): whenever no request is in progress, the
\* ids of the registry are exactly the ids whose path "/"+id has a factory
\* mounted, concurrent requests included.
C1_MountCorrespondence ==
  Quiescent => {Path(id) : id \in RegisteredIds} = DOMAIN mounts

\* C2 (I2, uniqueness): in every reachable state the registry holds at most
\* one record per id, concurrent put_permanent_stream calls included.
C2_Uniqueness ==
  \A i, j \in DOMAIN streams : streams[i].id = streams[j].id => i = j

\* C3 (I5, permanent safety): the snapshot of remove_stale_streams selects no
\* id that has a record with expiration Never, and the teardown of a sweep
\* removes no such record and unmounts no such id.
C3_PermanentSafety ==
  [][\A t \in Tasks :
       /\ Leaves(t, "sw_snapshot") =>
            \A i \in DOMAIN streams :
              streams[i].expiration_date = Never => streams[i].id \notin Range(stale'[t])
       /\ Leaves(t, "rif_unmount") =>
            \A i \in DOMAIN streams :
              streams[i].expiration_date = Never =>
                /\ \E j \in DOMAIN streams' : streams'[j] = streams[i]
                /\ Mounted(streams[i].id) => Path(streams[i].id) \in DOMAIN mounts'
    ]_vars

\* C4 (I4, expiration monotonicity): the snapshot of a sweep that read the
\* clock as current_time selects the id of a record with expiration At(e)
\* when e <= current_time, and does not select an id all of whose records
\* expire later than current_time.
C4_ExpirationSelection ==
  [][\A t \in Tasks :
       Leaves(t, "sw_snapshot") =>
         \A i \in DOMAIN streams :
           LET s == streams[i] IN
             s.expiration_date.kind = "At" =>
               /\ s.expiration_date.t <= current_time[t] => s.id \in Range(stale'[t])
               /\ (\A j \in RecordsOf(s.id) :
                     /\ streams[j].expiration_date.kind = "At"
                     /\ current_time[t] < streams[j].expiration_date.t)
                    => s.id \notin Range(stale'[t])
    ]_vars

\* a sweep has just selected a stream that expires exactly at its current_time
C4_Witness ==
  \E t \in Tasks :
    /\ pc[t] = "rif_media" /\ k[t] = 1
    /\ \E i \in DOMAIN streams :
         /\ streams[i].expiration_date = At(current_time[t])
         /\ streams[i].id \in Range(stale[t])

\* C5: when a sweep has completed, no expirable stream that it selected with
\* expiration <= current_time and did not find busy is left in the registry,
\* and none of the ids it selected and did not find busy is mounted without
\* being registered.
C5_SweepRemovesIdleExpired ==
  \A t \in Tasks :
    (pc[t] = "done" /\ op[t] = "remove_stale_streams") =>
      \A id \in Range(stale[t]) \ busy[t] :
        /\ \A i \in RecordsOf(id) :
             ~ /\ streams[i].expiration_date.kind = "At"
               /\ streams[i].expiration_date.t <= current_time[t]
        /\ ~Registered(id) => ~Mounted(id)

\* the sum of n_streams over the handles that upgrade
RECURSIVE SumStreams(_, _)
SumStreams(ws, ms) ==
  IF ws = <<>> THEN 0
  ELSE (IF ms[Head(ws)].alive THEN ms[Head(ws)].n_streams ELSE 0) + SumStreams(Tail(ws), ms)
ActiveClients(id) == SumStreams(Handles(id), medias)

\* C6: remove_stream_if_has_no_clients on a registered id with active clients
\* whose age, at the clock value it reads, is below the maximal life time
\* returns Ok without going to the teardown, and leaves registry, mounts,
\* media map and medias (no unprepare) as they were.
C6_PreserveBusyYoung ==
  [][\A t \in Tasks :
       Leaves(t, "rif_streams") =>
         LET id == stale[t][k[t]] IN
           ( /\ Registered(id)
             /\ ActiveClients(id) > 0
             /\ \A i \in RecordsOf(id) :
                  NumMinutes(now' - streams[i].added_at) < stream_max_life_time_in_minutes )
           => /\ streams' = streams /\ mounts' = mounts
              /\ media_map' = media_map /\ medias' = medias
              /\ pc'[t] # "rif_unmount"
              /\ errs'[t] = errs[t]
    ]_vars

\* a sweep has preserved an expired stream that was busy: it is still
\* registered and mounted
C6_Witness ==
  \E t \in Tasks :
    \E id \in busy[t] :
      /\ Mounted(id) /\ ActiveClients(id) > 0
      /\ \E i \in RecordsOf(id) :
           /\ streams[i].expiration_date.kind = "At"
           /\ streams[i].expiration_date.t <= current_time[t]

\* C7 (hard ceiling): remove_stream_if_has_no_clients on a registered id whose
\* age in minutes is >= the maximal life time goes to the teardown, and the
\* teardown removes the record, unmounts the factory and invokes unprepare on
\* every handle that upgrades.
C7_HardCeiling ==
  [][\A t \in Tasks :
       /\ Leaves(t, "rif_streams") =>
            LET id == stale[t][k[t]] IN
              ( /\ Registered(id)
                /\ \A i \in RecordsOf(id) :
                     NumMinutes(now' - streams[i].added_at)
                       >= stream_max_life_time_in_minutes )
              => pc'[t] = "rif_unmount"
       /\ Leaves(t, "rif_unmount") =>
            LET id == stale[t][k[t]] IN
              /\ \A j \in DOMAIN streams' : streams'[j].id # id
              /\ Path(id) \notin DOMAIN mounts'
              /\ \A w \in Live(Handles(id), medias) : medias'[w].unprepared = 1
    ]_vars

\* what remove_stream_by_id returned to its caller at the step that ends it
ReturnsOk(t) == pc'[t] = "add_mount" \/ result'[t] = "ok"
ReturnsErr(t) == result'[t] = "err"

PutState(t) ==
  /\ Cardinality(RecordsOf(arg[t])) = 1
  /\ \A i \in RecordsOf(arg[t]) :
       /\ streams[i].name = req[t].name
       /\ streams[i].expiration_date = Never
  /\ Mounted(arg[t])
  /\ mounts[Path(arg[t])].launch = Launch(req[t].source_url, req[t].down_scale)

\* C9, as claimed: a put_permanent_stream that ran with no other request in
\* progress ends in the state its own arguments imply.
C9_SequentialPutAlways ==
  [][\A t \in Tasks :
       ( /\ op[t] = "put_permanent_stream" /\ Active(t) /\ pc'[t] = "done"
         /\ ~concurrent[t] )
       => PutState(t)'
    ]_vars

\* C9, amended: a put_permanent_stream that ran with no other request in
\* progress and returned success ends in the state its own arguments imply:
\* one record of the id with its name and expiration Never, and the factory
\* at "/"+id built from its source_url.
C9_SequentialPut ==
  [][\A t \in Tasks :
       ( /\ op[t] = "put_permanent_stream" /\ Active(t) /\ pc'[t] = "done"
         /\ ~concurrent[t] /\ result'[t] = "ok" )
       => PutState(t)'
    ]_vars

\* two puts of one id with different bodies ran one after the other, and the
\* state is the one implied by task t's
C9_Witness ==
  \E t, u \in Tasks :
    /\ t # u /\ arg[t] = arg[u] /\ req[t] # req[u]
    /\ \A v \in {t, u} :
         /\ pc[v] = "done" /\ op[v] = "put_permanent_stream" /\ result[v] = "ok"
         /\ ~concurrent[v]
    /\ PutState(t)

\* C10: once a put_permanent_stream(id) and a remove_stream(id) that ran
\* concurrently have both completed, id is registered with the put's data and
\* a factory is mounted at "/"+id.
C10_PutWinsRace ==
  \A t, u \in Tasks :
    ( /\ pc[t] = "done" /\ op[t] = "put_permanent_stream" /\ result[t] = "ok"
      /\ pc[u] = "done" /\ op[u] = "remove_stream" /\ arg[u] = arg[t]
      /\ concurrent[t] /\ concurrent[u] )
    => /\ \E i \in RecordsOf(arg[t]) : streams[i].name = req[t].name
       /\ Mounted(arg[t])

\* the id remove_stream_if_has_no_clients works on in a sweep
SweepId(t) == stale[t][k[t]]

\* C11: remove_stream_by_id, and the teardown of
\* remove_stream_if_has_no_clients, invoke unprepare on every handle recorded
\* for the path that still upgrades, even when an earlier unprepare failed.
C11_UnprepareEvery ==
  [][\A t \in Tasks :
       /\ Leaves(t, "rm_media") =>
            \A w \in Live(Handles(arg[t]), medias) : medias'[w].unprepared = 1
       /\ Leaves(t, "rif_unmount") =>
            \A w \in Live(Handles(SweepId(t)), medias) : medias'[w].unprepared = 1
    ]_vars

\* C12: whatever remove_stream_if_has_no_clients returned for an id, failure
\* included, the sweep goes on to the next id of its snapshot, and after the
\* last one remove_stale_streams returns success.
C12_SweepNeverAborts ==
  [][\A t \in Tasks :
       ( \/ Leaves(t, "rif_unmount")
         \/ (Leaves(t, "rif_streams") /\ pc'[t] # "rif_unmount") )
       => IF k[t] < Len(stale[t])
            THEN pc'[t] = "rif_media" /\ k'[t] = k[t] + 1
            ELSE pc'[t] = "done" /\ result'[t] = "ok"
    ]_vars

\* a sweep of two ids has returned Ok although the removal of the first failed
C12_Witness ==
  \E t \in Tasks :
    /\ pc[t] = "done" /\ op[t] = "remove_stale_streams" /\ result[t] = "ok"
    /\ Len(stale[t]) = 2 /\ k[t] = 2
    /\ stale[t][1] \in errs[t]

\* C13: a list_streams issued after an add_stream has returned successfully,
\* with no remove or sweep in between, contains the id the add returned.
C13_AddThenList ==
  [][\A t \in Tasks :
       Leaves(t, "list_lock") =>
         \A id \in fresh : \E i \in DOMAIN listed'[t] : listed'[t][i].id = id
    ]_vars

\* a list_streams that began after an add_stream had returned, with nothing
\* running beside it, has returned the added id
C13_Witness ==
  \E t \in Tasks :
    /\ pc[t] = "done" /\ op[t] = "list_streams" /\ ~concurrent[t]
    /\ fresh # {}
    /\ \A id \in fresh : \E i \in DOMAIN listed[t] : listed[t][i].id = id

\* the records of ss whose id is not in the sequence ids
Others(ss, ids) == SelectSeq(ss, LAMBDA s : s.id \notin Range(ids))

\* C14: a step of a sweep changes the registry and the mounts only for ids of
\* its snapshot and leaves the media map alone; a sweep whose snapshot is
\* empty returns success with registry, mounts and media map unchanged.
C14_SweepFrame ==
  [][\A t \in Tasks :
       (op[t] = "remove_stale_streams" /\ Active(t) /\ pc'[t] # pc[t]) =>
         /\ Others(streams', stale'[t]) = Others(streams, stale'[t])
         /\ \A p \in (DOMAIN mounts \cup DOMAIN mounts')
                       \ {Path(id) : id \in Range(stale'[t])} :
              /\ p \in DOMAIN mounts /\ p \in DOMAIN mounts'
              /\ mounts'[p] = mounts[p]
         /\ media_map' = media_map
         /\ (Leaves(t, "sw_snapshot") /\ stale'[t] = <<>>) =>
              /\ pc'[t] = "done" /\ result'[t] = "ok"
              /\ streams' = streams /\ mounts' = mounts
    ]_vars

\* a sweep has removed an id of its snapshot, and a stream that was not in
\* the snapshot is still registered and mounted
C14_Witness ==
  \E t \in Tasks :
    /\ pc[t] = "done" /\ op[t] = "remove_stale_streams"
    /\ \E id \in Range(stale[t]) : ~Registered(id) /\ ~Mounted(id)
    /\ \E id \in RegisteredIds \ Range(stale[t]) : Mounted(id)

\* the step of task t executes an engine call: add_factory, remove_factory,
\* or unprepare on a media that upgrades
EngineCall(t) ==
  \/ Leaves(t, "add_mount")
  \/ Leaves(t, "rm_unmount")
  \/ Leaves(t, "rm_media") /\ Live(Handles(arg[t]), medias) # {}
  \/ Leaves(t, "rif_unmount")

\* C15: no task executes an engine call (add_factory, remove_factory,
\* unprepare) while it holds the streams mutex.
C15_NoEngineCallUnderStreamsLock ==
  [][\A t \in Tasks : EngineCall(t) => streamsLock # t]_vars

\* C16: no task holds the media-map mutex and the streams mutex together,
\* and no task acquires the media-map mutex while it holds the streams mutex
\* (remove_stream_by_id takes its media-map lock at the step from rm_media).
C16_LockOrdering ==
  [][\A t \in Tasks :
       /\ ~(streamsLock' = t /\ mediaLock' = t)
       /\ Leaves(t, "rm_media") => streamsLock # t
    ]_vars

\* C18: when remove_stream_by_id(id), or the teardown of
\* remove_stream_if_has_no_clients(id), returns, with success or with an
\* unprepare error, id has no record and no factory is mounted at "/"+id.
C18_RemovalCompletes ==
  [][\A t \in Tasks :
       /\ Leaves(t, "rm_media") =>
            /\ \A j \in DOMAIN streams' : streams'[j].id # arg[t]
            /\ Path(arg[t]) \notin DOMAIN mounts'
       /\ Leaves(t, "rif_unmount") =>
            /\ \A j \in DOMAIN streams' : streams'[j].id # SweepId(t)
            /\ Path(SweepId(t)) \notin DOMAIN mounts'
    ]_vars

\* task t enters position a at this step
Enters(t, a) == pc'[t] = a /\ pc[t] # a

\* C19: add_stream_to_state mounts the factory at "/"+id first and inserts
\* the record last: the steps before the insert leave the registry unchanged,
\* the insert is reached only through the mount, and it ends the function.
C19_InsertLast ==
  [][\A t \in Tasks :
       /\ Leaves(t, "add_mount") =>
            /\ Path(arg[t]) \in DOMAIN mounts'
            /\ mounts'[Path(arg[t])].launch = Launch(req[t].source_url, req[t].down_scale)
            /\ streams' = streams
            /\ pc'[t] = "add_clock"
       /\ Leaves(t, "add_clock") => streams' = streams /\ pc'[t] = "add_push"
       /\ Enters(t, "add_clock") => pc[t] = "add_mount"
       /\ Enters(t, "add_push") => pc[t] = "add_clock"
       /\ Leaves(t, "add_push") =>
            /\ Len(streams') = Len(streams) + 1
            /\ streams'[Len(streams')].id = arg[t]
            /\ pc'[t] = "done" /\ result'[t] = "ok"
    ]_vars

\* an add has mounted its factory and not yet inserted its record
C19_Witness ==
  \E t \in Tasks :
    /\ pc[t] = "add_push"
    /\ Mounted(arg[t]) /\ ~Registered(arg[t])

\* C20: a put_permanent_stream(id) deletes the old record and unmounts the
\* previous factory before it mounts the new one: its mount is reached only
\* through its completed remove_stream_by_id, and when no other request runs
\* beside it nothing is mounted at "/"+id when the new factory is mounted.
C20_RemoveThenAdd ==
  [][\A t \in Tasks :
       op[t] = "put_permanent_stream" =>
         /\ Leaves(t, "rm_lock") =>
              /\ \A j \in DOMAIN streams' : streams'[j].id # arg[t]
              /\ pc'[t] = "rm_unmount"
         /\ Leaves(t, "rm_unmount") =>
              /\ Path(arg[t]) \notin DOMAIN mounts'
              /\ pc'[t] = "rm_media"
         /\ Enters(t, "add_mount") => pc[t] = "rm_media"
         /\ Enters(t, "rm_media") => pc[t] = "rm_unmount"
         /\ (Leaves(t, "add_mount") /\ ~concurrent[t]) =>
              Path(arg[t]) \notin DOMAIN mounts
    ]_vars

\* a put of a registered id has dropped the old record and the old factory
\* and is about to mount the new one
C20_Witness ==
  \E t \in Tasks :
    /\ pc[t] = "add_mount" /\ op[t] = "put_permanent_stream"
    /\ was_registered[t]
    /\ ~Mounted(arg[t]) /\ ~Registered(arg[t])

\* the holder of the mutex the next step of task t waits for, None when the
\* mutex is free or the step needs none
WaitsFor(t) ==
  IF pc[t] \in {"rm_lock", "add_push", "sw_snapshot", "rif_streams", "list_lock"}
    THEN streamsLock
  ELSE IF pc[t] \in {"rm_media", "rif_media"} THEN mediaLock
  ELSE None

\* C17 (deadlock freedom): in no reachable state do two tasks wait for
\* mutexes that the other one holds.
C17_NoDeadlock ==
  \A t, u \in Tasks : ~(t # u /\ WaitsFor(t) = u /\ WaitsFor(u) = t)

\* C21: remove_stream_if_has_no_clients called for an id that has no record
\* (removed by a concurrent remove_stream after the sweep's snapshot) returns
\* success: the sweep goes on without an error recorded, and registry,
\* mounts, media map and medias are as before.
C21_MissingIsNoOp ==
  [][\A t \in Tasks :
       (Leaves(t, "rif_streams") /\ ~Registered(SweepId(t))) =>
         /\ streams' = streams /\ mounts' = mounts
         /\ media_map' = media_map /\ medias' = medias
         /\ pc'[t] \in {"rif_media", "done"}
         /\ errs'[t] = errs[t]
         /\ pc'[t] = "done" => result'[t] = "ok"
    ]_vars

\* a sweep has found no record of an id of its snapshot, which a concurrent
\* remove_stream had dropped, behind a media-map entry of its path
C21_Witness ==
  \E t, u \in Tasks :
    /\ t # u
    /\ op[t] = "remove_stale_streams" /\ missing[t] # {}
    /\ op[u] = "remove_stream" /\ arg[u] \in missing[t] /\ was_registered[u]
    /\ Path(arg[u]) \in DOMAIN media_map

\* C22: every record with expiration At(t) has added_at <= t.
C22_AddedBeforeExpiration ==
  \A i \in DOMAIN streams :
    streams[i].expiration_date.kind = "At" =>
      streams[i].added_at <= streams[i].expiration_date.t

\* C23: whenever no request is in progress, every handle of the media map
\* that still upgrades is stored under the path of a registered id.
C23_LiveHandlesRegistered ==
  Quiescent =>
    \A p \in DOMAIN media_map :
      Live(media_map[p], medias) # {} => \E id \in RegisteredIds : Path(id) = p

\* C24: when the remove_stream_by_id of a put_permanent_stream(id) returns an
\* error, the put returns it without mounting or inserting, and id has no
\* record and no factory mounted.
C24_PutPreCleanError ==
  [][\A t \in Tasks :
       ( /\ op[t] = "put_permanent_stream" /\ Leaves(t, "rm_media")
         /\ ReturnsErr(t) )
       => /\ pc'[t] = "done"
          /\ streams' = streams /\ mounts' = mounts
          /\ \A j \in DOMAIN streams' : streams'[j].id # arg[t]
          /\ Path(arg[t]) \notin DOMAIN mounts'
    ]_vars

\* the records of ss of another id than id
OtherRecords(ss, id) == SelectSeq(ss, LAMBDA s : s.id # id)
\* the map m without the path of id
OtherPaths(m, id) == [p \in DOMAIN m \ {Path(id)} |-> m[p]]
\* the medias recorded for another path than that of id are as they were
OtherMediasKept(id) ==
  \A p \in DOMAIN media_map \ {Path(id)} :
    \A w \in Range(media_map[p]) : medias'[w] = medias[w]
\* the step leaves every id but id alone
Isolated(id) ==
  /\ OtherRecords(streams', id) = OtherRecords(streams, id)
  /\ OtherPaths(mounts', id) = OtherPaths(mounts, id)
  /\ OtherPaths(media_map', id) = OtherPaths(media_map, id)
  /\ OtherMediasKept(id)

\* C25 (isolation between ids): every step of remove_stream_by_id(a), of
\* put_permanent_stream(a) and of remove_stream_if_has_no_clients(a) leaves
\* the records, the factories, the media-map entries and the medias of every
\* other id unchanged, and list_streams changes none of them at all.
C25_Isolation ==
  [][\A t \in Tasks :
       /\ ( /\ op[t] \in {"remove_stream", "put_permanent_stream"}
            /\ Active(t) /\ pc'[t] # pc[t] ) => Isolated(arg[t])
       /\ (Leaves(t, "rif_media") \/ Leaves(t, "rif_streams") \/ Leaves(t, "rif_unmount"))
            => Isolated(SweepId(t))
       /\ Leaves(t, "list_lock") =>
            /\ streams' = streams /\ mounts' = mounts
            /\ media_map' = media_map /\ medias' = medias
    ]_vars

\* a remove_stream has dropped the record of its id, and another id is still
\* registered and mounted, with a media that upgrades
C25_Witness ==
  \E t \in Tasks :
    /\ pc[t] = "done" /\ op[t] = "remove_stream" /\ was_registered[t]
    /\ \E b \in RegisteredIds :
         /\ b # arg[t] /\ Mounted(b)
         /\ Live(Handles(b), medias) # {}

====
